---- MODULE Spec2Model ----
(***************************************************************************)
(* Model of the two streaming wrappers of llm_based_tutor.ipynb,           *)
(* gpt_answer (cell 5) and llama_answer (cell 6).  Both open a streamed    *)
(* chat completion, create one updatable Markdown display, and for every   *)
(* chunk append its text to response, strip the triple-backtick fence and  *)
(* the word "markdown" with two chained str.replace calls, and push the    *)
(* buffer to the display.                                                  *)
(* Every exception raised inside the try block is printed by the except    *)
(* clause.  Text is modelled as a sequence of one-character strings.       *)
(***************************************************************************)
EXTENDS Naturals, Sequences, FiniteSets

VARIABLES
    credential,     \* OPENAI_API_KEY is present in the environment
    client,         \* state of the module-level openai client (cell 5)
    calls,          \* number of wrapper invocations so far
    variant,        \* wrapper of the current invocation: "gpt" or "llama"
    pc,             \* position of the current invocation
    opens,          \* streams opened by the current invocation
    requested,      \* chunks requested from the stream (next() calls)
    fragments,      \* texts extracted from the chunks delivered so far
    response,       \* the local response buffer
    responses,      \* response = "" executions of the current invocation
    handle,         \* display_handle.display_id, 0 before display() returns
    displays,       \* display() calls that returned in the current invocation
    nextDisplayId,  \* next display id the frontend hands out
    shown,          \* text currently shown by this invocation's display
    updates,        \* update_display() calls that returned
    updateIds,      \* display ids those updates were addressed to
    printed,        \* diagnostics printed by the except clause
    raised,         \* an exception left the wrapper
    failedAt,       \* where the exception of this invocation was raised
    error           \* kind of that exception

vars == <<credential, client, calls, variant, pc, opens, requested, fragments,
          response, responses, handle, displays, nextDisplayId, shown, updates,
          updateIds, printed, raised, failedAt, error>>

\* Bounds of the model.
MaxFrags == 3
MaxCalls == 2

----------------------------------------------------------------------------
\* Text

\* The backtick character (U+0060), written by its name.
BT == "backtick"

\* The two literals removed at line 124 / 159.
Fence == <<BT, BT, BT>>
Token == <<"m", "a", "r", "k", "d", "o", "w", "n">>

\* Texts a chunk may carry.
Texts ==
    { <<>>,
      <<BT>>,
      <<BT, BT>>,
      <<BT, "m", "a", "r", "k">>,
      <<"d", "o", "w", "n">>,
      <<"d", "o", "w", "n", BT, BT>> }

\* A streamed chunk: its content is either absent (None) or a text.
Chunks ==
    {[present |-> FALSE, text |-> <<>>]}
        \cup {[present |-> TRUE, text |-> t] : t \in Texts}

\* chunk.choices[0].delta.content or ""
Content(c) ==
    IF c.present /\ c.text # <<>> THEN c.text ELSE <<>>

\* Python's str.replace(old, new): one left-to-right scan that replaces the
\* non-overlapping occurrences of old and never rescans what it produced.
RECURSIVE Replace(_, _, _)
Replace(s, old, new) ==
    IF Len(s) < Len(old) THEN s
    ELSE IF SubSeq(s, 1, Len(old)) = old
         THEN new \o Replace(SubSeq(s, Len(old) + 1, Len(s)), old, new)
         ELSE <<s[1]>> \o Replace(Tail(s), old, new)

\* response.replace(Fence, "").replace("markdown", "")
Sanitize(s) ==
    Replace(Replace(s, Fence, <<>>), Token, <<>>)

\* Variant of AppendText that puts the fragment in front of the buffer.
Append_Prepend(r, f) ==
    f \o r

\* response += fragment
AppendText(r, f) ==
    r \o f

----------------------------------------------------------------------------
\* Helpers of the properties

Contains(s, pat) ==
    \E i \in 1..Len(s) : i + Len(pat) - 1 <= Len(s) /\ SubSeq(s, i, i + Len(pat) - 1) = pat

IsPrefix(p, s) ==
    Len(p) <= Len(s) /\ SubSeq(s, 1, Len(p)) = p

RECURSIVE Concat(_)
Concat(fs) ==
    IF fs = <<>> THEN <<>> ELSE Head(fs) \o Concat(Tail(fs))

InProgress == {"open", "init", "loop"}
Terminal == {"completed", "failed"}

----------------------------------------------------------------------------
\* Initial state: the notebook kernel before cell 5 runs.

Init ==
    /\ credential \in BOOLEAN
    /\ client = "unset"
    /\ calls = 0
    /\ variant = "none"
    /\ pc = "idle"
    /\ opens = 0
    /\ requested = 0
    /\ fragments = <<>>
    /\ response = <<>>
    /\ responses = 0
    /\ handle = 0
    /\ displays = 0
    /\ nextDisplayId = 1
    /\ shown = <<>>
    /\ updates = 0
    /\ updateIds = {}
    /\ printed = 0
    /\ raised = FALSE
    /\ failedAt = "none"
    /\ error = "none"

session == <<opens, requested, fragments, response, responses, handle, displays,
             nextDisplayId, shown, updates, updateIds, printed, raised, failedAt,
             error>>

\* Cell 5, lines 96-100: load_dotenv(); openai = OpenAI(); openai.api_key = ...
\* Without a key the client library either refuses to construct the client
\* (the cell stops, gpt_answer is never defined) or constructs one that has no
\* key and is rejected when it is used.
SetupClient ==
    /\ client = "unset"
    /\ pc = "idle"
    /\ client' \in (IF credential THEN {"ready"} ELSE {"raised", "nokey"})
    /\ UNCHANGED <<credential, calls, variant, pc, session>>

\* Cells 7 and 8: gpt_answer(the_prompts) / llama_answer(the_prompts).
Invoke(v) ==
    /\ pc \in {"idle"} \cup Terminal
    /\ calls < MaxCalls
    /\ client # "unset"
    /\ v = "gpt" => client \in {"ready", "nokey"}
    /\ calls' = calls + 1
    /\ variant' = v
    /\ pc' = "open"
    /\ opens' = 0
    /\ requested' = 0
    /\ fragments' = <<>>
    /\ response' = <<>>
    /\ responses' = 0
    /\ handle' = 0
    /\ displays' = 0
    /\ shown' = <<>>
    /\ updates' = 0
    /\ updateIds' = {}
    /\ printed' = 0
    /\ raised' = FALSE
    /\ failedAt' = "none"
    /\ error' = "none"
    /\ UNCHANGED <<credential, client, nextDisplayId>>

\* Variant of Except in which the exception leaves the wrapper unprinted.
Except_Propagate(where, e) ==
    /\ pc' = "idle"
    /\ printed' = printed
    /\ raised' = TRUE
    /\ failedAt' = where
    /\ error' = e

\* Variant of Except that opens the stream a second time after a failed open.
Except_Retry(where, e) ==
    /\ pc' = IF where = "open" /\ opens = 0 THEN "open" ELSE "failed"
    /\ printed' = printed + 1
    /\ raised' = FALSE
    /\ failedAt' = IF where = "open" /\ opens = 0 THEN "none" ELSE where
    /\ error' = IF where = "open" /\ opens = 0 THEN "none" ELSE e

\* except Exception as e: print(...) ; the wrapper then returns None.
Except(where, e) ==
    /\ pc' = "failed"
    /\ printed' = printed + 1
    /\ raised' = FALSE
    /\ failedAt' = where
    /\ error' = e

\* stream = openai.chat.completions.create(...) / ollama.chat(...) returns.
OpenStream ==
    /\ pc = "open"
    /\ variant = "gpt" => client = "ready"
    /\ opens' = opens + 1
    /\ pc' = "init"
    /\ UNCHANGED <<credential, client, calls, variant, requested, fragments,
                   response, responses, handle, displays, nextDisplayId, shown,
                   updates, updateIds, printed, raised, failedAt, error>>

\* Variant of OpenStreamFails with lines 120-121 placed before the create call.
OpenStreamFails_DisplayFirst ==
    /\ pc = "open"
    /\ opens' = opens + 1
    /\ responses' = responses + 1
    /\ handle' = nextDisplayId
    /\ nextDisplayId' = nextDisplayId + 1
    /\ displays' = displays + 1
    /\ \E e \in {"AuthenticationError", "BackendError"} :
         /\ (variant = "gpt" /\ ~credential) => e = "AuthenticationError"
         /\ variant = "llama" => e = "BackendError"
         /\ Except("open", e)
    /\ UNCHANGED <<credential, client, calls, variant, requested, fragments,
                   response, shown, updates, updateIds>>

\* The call that opens the stream raises: a missing or rejected key for the
\* cloud client, or any backend failure.
OpenStreamFails ==
    /\ pc = "open"
    /\ opens' = opens + 1
    /\ \E e \in {"AuthenticationError", "BackendError"} :
         /\ (variant = "gpt" /\ ~credential) => e = "AuthenticationError"
         /\ variant = "llama" => e = "BackendError"
         /\ Except("open", e)
    /\ UNCHANGED <<credential, client, calls, variant, requested, fragments,
                   response, responses, handle, displays, nextDisplayId, shown,
                   updates, updateIds>>

\* response = "" ; display_handle = display(Markdown(""), display_id=True)
InitSession ==
    /\ pc = "init"
    /\ response' = <<>>
    /\ responses' = responses + 1
    /\ handle' = nextDisplayId
    /\ nextDisplayId' = nextDisplayId + 1
    /\ displays' = displays + 1
    /\ shown' = <<>>
    /\ pc' = "loop"
    /\ UNCHANGED <<credential, client, calls, variant, opens, requested,
                   fragments, updates, updateIds, printed, raised, failedAt,
                   error>>

\* response = "" ; display(...) raises.
DisplayFails ==
    /\ pc = "init"
    /\ response' = <<>>
    /\ responses' = responses + 1
    /\ Except("display", "BackendError")
    /\ UNCHANGED <<credential, client, calls, variant, opens, requested,
                   fragments, handle, displays, nextDisplayId, shown, updates,
                   updateIds>>

\* Variant of ProcessChunk that calls display() instead of update_display().
ProcessChunk_NewDisplay(c) ==
    /\ pc = "loop"
    /\ Len(fragments) < MaxFrags
    /\ requested' = requested + 1
    /\ fragments' = Append(fragments, Content(c))
    /\ response' = Sanitize(AppendText(response, Content(c)))
    /\ handle' = nextDisplayId
    /\ nextDisplayId' = nextDisplayId + 1
    /\ displays' = displays + 1
    /\ shown' = response'
    /\ updates' = updates + 1
    /\ updateIds' = updateIds \cup {handle'}
    /\ UNCHANGED <<credential, client, calls, variant, pc, opens, responses,
                   printed, raised, failedAt, error>>

\* One iteration of the for loop, lines 122-125 / 157-160.
ProcessChunk(c) ==
    /\ pc = "loop"
    /\ Len(fragments) < MaxFrags
    /\ requested' = requested + 1
    /\ fragments' = Append(fragments, Content(c))
    /\ response' = Sanitize(AppendText(response, Content(c)))
    /\ shown' = response'
    /\ updates' = updates + 1
    /\ updateIds' = updateIds \cup {handle}
    /\ UNCHANGED <<credential, client, calls, variant, pc, opens, responses,
                   handle, displays, nextDisplayId, printed, raised, failedAt,
                   error>>

\* The stream raises while the next chunk is being obtained.
NextFails ==
    /\ pc = "loop"
    /\ requested' = requested + 1
    /\ Except("next", "BackendError")
    /\ UNCHANGED <<credential, client, calls, variant, opens, fragments,
                   response, responses, handle, displays, nextDisplayId, shown,
                   updates, updateIds>>

\* A chunk arrives but chunk.choices[0].delta.content / chunk["message"]
\* ["content"] raises (no choices, missing key).
ExtractFails ==
    /\ pc = "loop"
    /\ requested' = requested + 1
    /\ Except("extract", "BackendError")
    /\ UNCHANGED <<credential, client, calls, variant, opens, fragments,
                   response, responses, handle, displays, nextDisplayId, shown,
                   updates, updateIds>>

\* Lines 123-124 run, update_display raises.
UpdateFails(c) ==
    /\ pc = "loop"
    /\ Len(fragments) < MaxFrags
    /\ requested' = requested + 1
    /\ fragments' = Append(fragments, Content(c))
    /\ response' = Sanitize(AppendText(response, Content(c)))
    /\ Except("update", "BackendError")
    /\ UNCHANGED <<credential, client, calls, variant, opens, responses,
                   handle, displays, nextDisplayId, shown, updates, updateIds>>

\* Variant of StreamEnds that pushes a closing marker to the display.
StreamEnds_DoneMarker ==
    /\ pc = "loop"
    /\ requested' = requested + 1
    /\ pc' = "completed"
    /\ shown' = response \o <<".">>
    /\ updates' = updates + 1
    /\ updateIds' = updateIds \cup {handle}
    /\ UNCHANGED <<credential, client, calls, variant, opens, fragments,
                   response, responses, handle, displays, nextDisplayId,
                   printed, raised, failedAt, error>>

\* The stream is exhausted: the for loop ends and the wrapper returns.
StreamEnds ==
    /\ pc = "loop"
    /\ requested' = requested + 1
    /\ pc' = "completed"
    /\ UNCHANGED <<credential, client, calls, variant, opens, fragments,
                   response, responses, handle, displays, nextDisplayId, shown,
                   updates, updateIds, printed, raised, failedAt, error>>

Next ==
    \/ SetupClient
    \/ \E v \in {"gpt", "llama"} : Invoke(v)
    \/ OpenStream
    \/ OpenStreamFails
    \/ InitSession
    \/ DisplayFails
    \/ \E c \in Chunks : ProcessChunk(c)
    \/ NextFails
    \/ ExtractFails
    \/ \E c \in Chunks : UpdateFails(c)
    \/ StreamEnds

Spec == Init /\ [][Next]_vars

\* The kernel runs a started cell to its end: single-threaded, synchronous,
\* and every stream is finite.
FairSpec == Spec /\ WF_vars(Next)

----------------------------------------------------------------------------
\* Claims

\* C1: after a stream that ended normally, the Accumulated Response (and the
\* last text pushed to the display) equals the sanitization, applied once, of
\* the concatenation of all fragments.
C1_FinalIsSanitizedConcat ==
    pc = "completed" =>
        /\ response = Sanitize(Concat(fragments))
        /\ updates > 0 => shown = Sanitize(Concat(fragments))

\* C2: when the stream raises while the next fragment is obtained, after
\* k >= 1 fragments, the display shows the sanitization of their
\* concatenation, one diagnostic is printed and the wrapper returns.
C2_PartialIsSanitizedConcat ==
    (pc = "failed" /\ failedAt = "next" /\ Len(fragments) >= 1) =>
        /\ shown = Sanitize(Concat(fragments))
        /\ printed = 1
        /\ ~raised

\* C3: once a fragment has been processed, neither the Accumulated Response
\* nor the displayed text contains the fence or the word "markdown".
C3_NoFenceNoToken ==
    Len(fragments) > 0 =>
        /\ ~Contains(response, Fence) /\ ~Contains(response, Token)
        /\ ~Contains(shown, Fence) /\ ~Contains(shown, Token)

\* C4: the sanitize step is idempotent on every text it is applied to, here
\* the buffer with the new fragment appended (the concatenation of the
\* fragments included).
C4_SanitizeIdempotent ==
    \A x \in {Concat(fragments)} \cup {AppendText(response, t) : t \in Texts} :
        Sanitize(Sanitize(x)) = Sanitize(x)

\* C5: wherever an error occurs inside a wrapper (opening the stream,
\* creating the display, obtaining or extracting a fragment, updating the
\* display) it is caught and printed once; it never leaves the wrapper, and
\* the wrapper returns.
C5_ErrorsCaught ==
    /\ ~raised
    /\ failedAt # "none" <=> pc = "failed"
    /\ pc = "failed" => printed = 1 /\ error # "none"
    /\ pc # "failed" => printed = 0

C5_Witness ==
    /\ pc = "failed"
    /\ failedAt = "update"
    /\ Len(fragments) = 2

\* C6: without a credential the cloud wrapper fails with an
\* AuthenticationError before any fragment is requested, and no display is
\* ever created for that invocation.
C6_NoCredentialNoDisplay ==
    /\ ~credential => client \in {"unset", "raised", "nokey"}
    /\ (variant = "gpt" /\ ~credential) =>
          /\ client = "nokey"
          /\ pc \in {"open", "failed"}
          /\ requested = 0
          /\ displays = 0 /\ handle = 0 /\ updates = 0
          /\ pc = "failed" => failedAt = "open" /\ error = "AuthenticationError"

C6_Witness ==
    /\ ~credential
    /\ variant = "gpt"
    /\ pc = "failed"
    /\ error = "AuthenticationError"

\* C7: a stream that ends without yielding a fragment leaves the display at
\* its empty placeholder (no update, or one update with the empty text), no
\* diagnostic is printed and the wrapper returns.
C7_EmptyStream ==
    (pc = "completed" /\ requested = 1) =>
        /\ fragments = <<>>
        /\ updates = 0 \/ (updates = 1 /\ shown = <<>>)
        /\ shown = <<>>
        /\ displays = 1
        /\ printed = 0
        /\ ~raised

C7_Witness ==
    /\ pc = "completed"
    /\ requested = 1
    /\ fragments = <<>>

\* A loop iteration that extracted a fragment.
Iteration ==
    pc = "loop" /\ Len(fragments') = Len(fragments) + 1

\* C8 as stated: in every iteration the buffer before it is a prefix of the
\* buffer after it.
C8_PrefixMonotone ==
    [][Iteration => IsPrefix(response, response')]_vars

\* C8, amended: the buffer starts empty; an iteration appends the fragment
\* and then only deletes, so the buffer is never longer than the old buffer
\* plus the fragment, and when nothing was deleted it is the old buffer
\* followed by the fragment.
C8_AppendThenDelete ==
    /\ [](pc = "loop" /\ requested = 0 => response = <<>>)
    /\ [][Iteration =>
            LET f == fragments'[Len(fragments')] IN
            /\ Len(response') <= Len(response) + Len(f)
            /\ Len(response') = Len(response) + Len(f) =>
                   /\ IsPrefix(response, response')
                   /\ response' = response \o f]_vars

C8_Witness ==
    /\ pc = "loop"
    /\ Len(fragments) = 2
    /\ Len(response) < Len(fragments[1])

\* C9 as stated: on every exit path the invocation has created exactly one
\* Accumulated Response and exactly one Render Target.
C9_ExactlyOne ==
    pc \in Terminal => responses = 1 /\ displays = 1

\* C9, amended: an invocation creates at most one Accumulated Response and
\* at most one Render Target: one of each after a normal end and after an
\* error while iterating, none after an error while opening the stream, and
\* a response but no Render Target when creating the display fails; every
\* update goes to that one Render Target, whose id is fresh.
C9_AtMostOne ==
    /\ responses <= 1 /\ displays <= 1
    /\ updateIds \subseteq {handle}
    /\ updates > 0 => handle # 0
    /\ handle # 0 => (displays = 1 /\ handle = nextDisplayId - 1)
    /\ pc \in Terminal =>
          /\ failedAt = "open" => (responses = 0 /\ displays = 0)
          /\ failedAt = "display" => (responses = 1 /\ displays = 0)
          /\ failedAt \notin {"open", "display"} => (responses = 1 /\ displays = 1)

C9_Witness ==
    /\ pc = "failed"
    /\ failedAt = "open"
    /\ calls = 2
    /\ nextDisplayId = 2

\* A step the state machine Idle -> Streaming -> {Completed | Failed} allows.
Allowed ==
    /\ pc = "idle" => pc' \in {"idle", "open"}
    /\ pc = "open" => pc' \in {"init", "failed"}
    /\ pc = "init" => pc' \in {"loop", "failed"}
    /\ pc = "loop" => pc' \in {"loop", "completed", "failed"}
    /\ pc \in Terminal => (pc' = "open" /\ calls' = calls + 1)

\* C10: an invocation that has started ends in Completed or Failed; it opens
\* its stream once (no retry), and in a terminal state nothing changes until
\* another invocation starts: no fragment is requested, no update is made,
\* nothing is resumed.
C10_StateMachine ==
    /\ [](opens <= 1)
    /\ [](pc = "completed" => failedAt = "none")
    /\ [][Allowed]_vars
    /\ (pc \in InProgress) ~> (pc \in Terminal)

C10_Witness ==
    /\ pc = "completed"
    /\ calls = 2
    /\ Len(fragments) = 3

====
